---- MODULE Spec2Model ----
(***************************************************************************)
(* Runtime timer-state engine of film-timer: TimerStateManager             *)
(* (app/services/timer_state.py) and the action service that wraps it      *)
(* (app/services/action_service.py).                                       *)
(*                                                                         *)
(* Wall-clock instants and durations are integers counted in clock ticks;  *)
(* tps is the number of ticks in one second (1 = whole-second timestamps). *)
(***************************************************************************)
EXTENDS Integers, Sequences, FiniteSets, TLC

\* ---------------------------------------------------------------- bounds
MaxTime == 3          \* the wall clock runs from 0 to MaxTime ticks
MaxDuration == 2      \* largest duration_seconds of a step
MaxReps == 2          \* largest repetitions of a step

\* the timer identifiers callers use
TimerIds == {1}

\* the lengths of the step lists handed to start_timer
StepCounts == 0..2

\* ------------------------------------------------------- TimerStatus enum
RUNNING == "running"
PAUSED == "paused"
STOPPED == "stopped"
FINISHED == "finished"
TimerStatus == {RUNNING, PAUSED, STOPPED, FINISHED}

\* Optional[datetime] = None
NoTime == -1

\* TimerStepData; step_index is the 0-based position in the list
TimerStepData ==
    [step_index: StepCounts, duration_seconds: 1..MaxDuration, repetitions: 1..MaxReps]

\* the step lists of the stated domain: duration >= 1, repetitions >= 1,
\* contiguous 0-based positions, the empty list included
StepLists ==
    UNION {{s \in [1..n -> TimerStepData] : \A i \in 1..n : s[i].step_index = i - 1} :
             n \in StepCounts}

VARIABLES
    now,        \* datetime.now(), in ticks
    tps,        \* ticks per second of the clock readings
    timers,     \* TimerStateManager._timers: timer_id -> TimerState
    lastOp,     \* the manager call made since the clock last advanced, if any
    ret,        \* what that call returned: "None", "state" (the TimerState now stored
                \* under its timer_id), "True"/"False", or the exception it raised
    runTime,    \* per timer_id: ticks of the current run spent with status RUNNING
    db,         \* the timers table with its steps: timer_id -> step list of the definition
    calls,      \* per caller: the request it has in flight, if any
    hist        \* the requests served so far, in the order the handlers ran

vars == <<now, tps, timers, ret, lastOp, runTime, db, calls, hist>>

\* ------------------------------------------------------------- helpers

\* int(timedelta.total_seconds()) of a non-negative duration d given in ticks
TotalSeconds(d) == d \div tps

RECURSIVE SumDurations(_, _)
SumDurations(steps, n) ==
    IF n = 0 THEN 0
    ELSE SumDurations(steps, n - 1) + steps[n].duration_seconds * steps[n].repetitions

\* a total that counts each step once, whatever its repetitions
RECURSIVE SumOnce(_, _)
SumOnce(steps, n) ==
    IF n = 0 THEN 0 ELSE SumOnce(steps, n - 1) + steps[n].duration_seconds

CalculateTotalDurationOnce(steps) == SumOnce(steps, Len(steps))

\* TimerStateManager._calculate_total_duration
CalculateTotalDuration(steps) == SumDurations(steps, Len(steps))

Min(a, b) == IF a < b THEN a ELSE b

\* the step loop without the correction at a repetition boundary
RECURSIVE StepWalkNoBoundary(_, _, _)
StepWalkNoBoundary(state, step_time, step_idx) ==
    IF step_idx < Len(state.steps)
    THEN LET step == state.steps[step_idx + 1]
             step_duration == step.duration_seconds
         IN IF state.time_in_timer >= step_time + (step_duration * step.repetitions)
            THEN StepWalkNoBoundary(state, step_time + step_duration * step.repetitions,
                                    step_idx + 1)
            ELSE LET remaining_time == state.time_in_timer - step_time
                     repetition == Min((remaining_time \div step_duration) + 1, step.repetitions)
                 IN [state EXCEPT !.current_step_index = step_idx,
                                  !.current_repetition = repetition,
                                  !.time_in_step = remaining_time % step_duration]
    ELSE state

\* the step loop that leaves a step one second late (> in place of >=)
RECURSIVE StepWalkLate(_, _, _)
StepWalkLate(state, step_time, step_idx) ==
    IF step_idx < Len(state.steps)
    THEN LET step == state.steps[step_idx + 1]
             step_duration == step.duration_seconds
         IN IF state.time_in_timer > step_time + (step_duration * step.repetitions)
            THEN StepWalkLate(state, step_time + step_duration * step.repetitions,
                              step_idx + 1)
            ELSE LET remaining_time == state.time_in_timer - step_time
                     repetition == Min((remaining_time \div step_duration) + 1, step.repetitions)
                     tis == remaining_time % step_duration
                     time_in_step == IF tis = 0 /\ repetition > 1 THEN step_duration ELSE tis
                 IN [state EXCEPT !.current_step_index = step_idx,
                                  !.current_repetition = repetition,
                                  !.time_in_step = time_in_step]
    ELSE state

\* the step loop that numbers the steps from 1
RECURSIVE StepWalkOneBased(_, _, _)
StepWalkOneBased(state, step_time, step_idx) ==
    IF step_idx < Len(state.steps)
    THEN LET step == state.steps[step_idx + 1]
             step_duration == step.duration_seconds
         IN IF state.time_in_timer >= step_time + (step_duration * step.repetitions)
            THEN StepWalkOneBased(state, step_time + step_duration * step.repetitions,
                                  step_idx + 1)
            ELSE LET remaining_time == state.time_in_timer - step_time
                     repetition == Min((remaining_time \div step_duration) + 1, step.repetitions)
                     tis == remaining_time % step_duration
                     time_in_step == IF tis = 0 /\ repetition > 1 THEN step_duration ELSE tis
                 IN [state EXCEPT !.current_step_index = step_idx + 1,
                                  !.current_repetition = repetition,
                                  !.time_in_step = time_in_step]
    ELSE state

\* the step loop that counts the repetitions of a step down
RECURSIVE StepWalkCountsDown(_, _, _)
StepWalkCountsDown(state, step_time, step_idx) ==
    IF step_idx < Len(state.steps)
    THEN LET step == state.steps[step_idx + 1]
             step_duration == step.duration_seconds
         IN IF state.time_in_timer >= step_time + (step_duration * step.repetitions)
            THEN StepWalkCountsDown(state, step_time + step_duration * step.repetitions,
                                    step_idx + 1)
            ELSE LET remaining_time == state.time_in_timer - step_time
                     repetition == step.repetitions - (remaining_time \div step_duration)
                     tis == remaining_time % step_duration
                     time_in_step == IF tis = 0 /\ repetition > 1 THEN step_duration ELSE tis
                 IN [state EXCEPT !.current_step_index = step_idx,
                                  !.current_repetition = repetition,
                                  !.time_in_step = time_in_step]
    ELSE state

\* the while loop of _update_timer_state (lines 81-108); step_idx is 0-based
RECURSIVE StepWalk(_, _, _)
StepWalk(state, step_time, step_idx) ==
    IF step_idx < Len(state.steps)
    THEN LET step == state.steps[step_idx + 1]
             step_duration == step.duration_seconds
         IN IF state.time_in_timer >= step_time + (step_duration * step.repetitions)
            THEN StepWalk(state, step_time + step_duration * step.repetitions, step_idx + 1)
            ELSE LET remaining_time == state.time_in_timer - step_time
                     repetition == Min((remaining_time \div step_duration) + 1, step.repetitions)
                     tis == remaining_time % step_duration
                     time_in_step == IF tis = 0 /\ repetition > 1 THEN step_duration ELSE tis
                 IN [state EXCEPT !.current_step_index = step_idx,
                                  !.current_repetition = repetition,
                                  !.time_in_step = time_in_step]
    ELSE state

\* the seconds left to run instead of the seconds of activity
ElapsedSecondsRemaining(state, t) ==
    LET total_elapsed == TotalSeconds(t - state.start_time)
        paused_seconds == TotalSeconds(state.total_time_paused)
    IN state.total_duration - (total_elapsed - paused_seconds)

\* the seconds of activity added to time_in_timer (+= in place of =)
ElapsedSecondsAccumulating(state, t) ==
    LET total_elapsed == TotalSeconds(t - state.start_time)
        paused_seconds == TotalSeconds(state.total_time_paused)
    IN state.time_in_timer + (total_elapsed - paused_seconds)

\* the seconds of activity with the paused seconds taken off twice
ElapsedSecondsLessPause(state, t) ==
    LET total_elapsed == TotalSeconds(t - state.start_time)
        paused_seconds == TotalSeconds(state.total_time_paused)
    IN total_elapsed - 2 * paused_seconds

\* lines 65-69 of _update_timer_state: the seconds of activity at clock reading t
ElapsedSeconds(state, t) ==
    LET total_elapsed == TotalSeconds(t - state.start_time)
        paused_seconds == TotalSeconds(state.total_time_paused)
    IN total_elapsed - paused_seconds

\* the finish test with > in place of >=
IsFinishedStrict(state) == state.time_in_timer > state.total_duration

\* line 72 of _update_timer_state: the finish test
IsFinished(state) == state.time_in_timer >= state.total_duration

\* TimerStateManager._update_timer_state applied to one TimerState at clock
\* reading t.  The result carries the state as the call leaves it and whether
\* the call raised: steps[-1] of an empty list is an IndexError, raised after
\* time_in_timer, status and current_step_index were already assigned.
UpdateState(state, t) ==
    LET s1 == [state EXCEPT !.time_in_timer = ElapsedSeconds(state, t)]
    IN IF IsFinished(s1)
       THEN IF Len(s1.steps) = 0
            THEN [state |-> [s1 EXCEPT !.status = FINISHED,
                                       !.current_step_index = Len(s1.steps) - 1],
                  raised |-> TRUE]
            ELSE [state |-> [s1 EXCEPT !.status = FINISHED,
                                       !.current_step_index = Len(s1.steps) - 1,
                                       !.current_repetition = s1.steps[Len(s1.steps)].repetitions,
                                       !.time_in_step = s1.steps[Len(s1.steps)].duration_seconds],
                  raised |-> FALSE]
       ELSE [state |-> StepWalk(s1, 0, 0), raised |-> FALSE]

\* a registry rebuilt with the one entry of timer_id
PutAlone(ts, timer_id, state) == [k \in {timer_id} |-> state]

\* self._timers with the entry of timer_id bound to state
Put(ts, timer_id, state) ==
    [k \in (DOMAIN ts) \cup {timer_id} |-> IF k = timer_id THEN state ELSE ts[k]]

\* a removal that spares the records that are RUNNING
PopUnlessRunning(ts, timer_id) ==
    [k \in {j \in DOMAIN ts : j # timer_id \/ ts[j].status = RUNNING} |-> ts[k]]

\* self._timers.pop(timer_id, None)
Pop(ts, timer_id) == [k \in (DOMAIN ts) \ {timer_id} |-> ts[k]]

\* a TimerState that starts FINISHED when there is nothing to run
NewTimerStateFinishedWhenEmpty(timer_id, steps, t) ==
    [timer_id |-> timer_id,
     status |-> IF Len(steps) = 0 THEN FINISHED ELSE RUNNING,
     steps |-> steps,
     current_step_index |-> Len(steps) - 1,
     current_repetition |-> 1,
     time_in_step |-> 0,
     time_in_timer |-> 0,
     start_time |-> t,
     total_duration |-> CalculateTotalDuration(steps),
     pause_time |-> NoTime,
     total_time_paused |-> 0]

\* lines 122-132 of start_timer: the TimerState of a run started at clock reading t
NewTimerState(timer_id, steps, t) ==
    [timer_id |-> timer_id,
     status |-> RUNNING,
     steps |-> steps,
     current_step_index |-> 0,
     current_repetition |-> 1,
     time_in_step |-> 0,
     time_in_timer |-> 0,
     start_time |-> t,
     total_duration |-> CalculateTotalDuration(steps),
     pause_time |-> NoTime,
     total_time_paused |-> 0]

\* a registration that keeps the record already there (dict.setdefault)
RegisterSetdefault(ts, timer_id, state) ==
    IF timer_id \in DOMAIN ts THEN ts ELSE Put(ts, timer_id, state)

\* line 133 of start_timer: self._timers[timer_id] = state
Register(ts, timer_id, state) == Put(ts, timer_id, state)

\* the status a call finds under timer_id, "absent" when there is no record
StatusOf(timer_id) == IF timer_id \in DOMAIN timers THEN timers[timer_id].status ELSE "absent"

\* the record of a call: its name, its arguments and the status it finds
Called(op, timer_id, steps) ==
    [op |-> op, timer_id |-> timer_id, steps |-> steps, found |-> StatusOf(timer_id)]

NoCall == [op |-> "none", timer_id |-> 0, steps |-> <<>>, found |-> "absent"]

\* ------------------------------------------------------------- Init
Init ==
    /\ now = 0
    /\ tps = 1
    /\ timers = [k \in {} |-> 0]
    /\ ret = "None"
    /\ lastOp = NoCall
    /\ runTime = [k \in TimerIds |-> 0]
    /\ db = [k \in {} |-> <<>>]
    /\ calls = [c \in {} |-> 0]
    /\ hist = <<>>

\* ------------------------------------------------------------- actions

\* the wall clock advances by one tick
Tick ==
    /\ now < MaxTime
    /\ now' = now + 1
    /\ runTime' = [k \in DOMAIN runTime |->
                     IF StatusOf(k) = RUNNING THEN runTime[k] + 1 ELSE runTime[k]]
    /\ ret' = "None"
    /\ lastOp' = NoCall
    /\ UNCHANGED <<tps, timers, db>>

\* TimerStateManager.start_timer
StartTimer(timer_id, steps) ==
    /\ timers' = Register(timers, timer_id, NewTimerState(timer_id, steps, now))
    /\ ret' = "state"
    /\ lastOp' = Called("start", timer_id, steps)
    /\ runTime' = [runTime EXCEPT ![timer_id] = 0]
    /\ UNCHANGED <<now, tps, db>>

\* a lookup that registers a record for an identifier it does not know
GetTimerStateCreates(timer_id) ==
    /\ LET state == IF timer_id \in DOMAIN timers
                    THEN timers[timer_id]
                    ELSE NewTimerState(timer_id, <<>>, now)
           u == UpdateState(state, now)
       IN /\ timers' = Put(timers, timer_id, u.state)
          /\ ret' = IF u.raised THEN "IndexError" ELSE "state"
    /\ lastOp' = Called("query", timer_id, <<>>)
    /\ UNCHANGED <<now, tps, runTime, db>>

\* a lookup that reads the steps of the definition again before the update
GetTimerStateRefetches(timer_id) ==
    /\ IF timer_id \in DOMAIN timers
       THEN LET state == IF timer_id \in DOMAIN db
                         THEN [timers[timer_id] EXCEPT
                                  !.steps = db[timer_id],
                                  !.total_duration = CalculateTotalDuration(db[timer_id])]
                         ELSE timers[timer_id]
                u == UpdateState(state, now)
            IN /\ timers' = Put(timers, timer_id, u.state)
               /\ ret' = IF u.raised THEN "IndexError" ELSE "state"
       ELSE /\ timers' = timers
            /\ ret' = "None"
    /\ lastOp' = Called("query", timer_id, <<>>)
    /\ UNCHANGED <<now, tps, runTime, db>>

\* a lookup that returns the record as it was last written
GetTimerStateCached(timer_id) ==
    /\ timers' = timers
    /\ ret' = IF timer_id \in DOMAIN timers THEN "state" ELSE "None"
    /\ lastOp' = Called("query", timer_id, <<>>)
    /\ UNCHANGED <<now, tps, runTime, db>>

\* TimerStateManager.get_timer_state
GetTimerState(timer_id) ==
    /\ IF timer_id \in DOMAIN timers
       THEN LET u == UpdateState(timers[timer_id], now)
            IN /\ timers' = Put(timers, timer_id, u.state)
               /\ ret' = IF u.raised THEN "IndexError" ELSE "state"
       ELSE /\ timers' = timers
            /\ ret' = "None"
    /\ lastOp' = Called("query", timer_id, <<>>)
    /\ UNCHANGED <<now, tps, runTime, db>>

\* TimerStateManager.is_timer_running
IsTimerRunning(timer_id) ==
    /\ IF timer_id \in DOMAIN timers
       THEN LET u == UpdateState(timers[timer_id], now)
            IN /\ timers' = Put(timers, timer_id, u.state)
               /\ ret' = IF u.raised THEN "IndexError"
                         ELSE IF u.state.status = RUNNING THEN "True" ELSE "False"
       ELSE /\ timers' = timers
            /\ ret' = "False"
    /\ lastOp' = Called("is_running", timer_id, <<>>)
    /\ UNCHANGED <<now, tps, runTime, db>>

\* a pause that pauses a copy of the record and leaves the registry alone
PauseTimerOnCopy(timer_id) ==
    /\ timers' = timers
    /\ ret' = IF timer_id \in DOMAIN timers THEN "state" ELSE "None"
    /\ lastOp' = Called("pause", timer_id, <<>>)
    /\ UNCHANGED <<now, tps, runTime, db>>

\* a pause that starts the count of paused time afresh
PauseTimerResetsPaused(timer_id) ==
    /\ IF timer_id \notin DOMAIN timers
       THEN /\ timers' = timers
            /\ ret' = "None"
       ELSE LET state == timers[timer_id]
            IN /\ timers' = IF state.status = RUNNING
                            THEN Put(timers, timer_id,
                                     [state EXCEPT !.status = PAUSED, !.pause_time = now,
                                                   !.total_time_paused = 0])
                            ELSE timers
               /\ ret' = "state"
    /\ lastOp' = Called("pause", timer_id, <<>>)
    /\ UNCHANGED <<now, tps, runTime, db>>

\* TimerStateManager.pause_timer
PauseTimer(timer_id) ==
    /\ IF timer_id \notin DOMAIN timers
       THEN /\ timers' = timers
            /\ ret' = "None"
       ELSE LET state == timers[timer_id]
            IN /\ timers' = IF state.status = RUNNING
                            THEN Put(timers, timer_id,
                                     [state EXCEPT !.status = PAUSED, !.pause_time = now])
                            ELSE timers
               /\ ret' = "state"
    /\ lastOp' = Called("pause", timer_id, <<>>)
    /\ UNCHANGED <<now, tps, runTime, db>>

\* a resume that leaves pause_time set
ResumeTimerKeepsPauseTime(timer_id) ==
    /\ IF timer_id \notin DOMAIN timers
       THEN /\ timers' = timers
            /\ ret' = "None"
       ELSE LET state == timers[timer_id]
            IN /\ timers' = IF state.status = PAUSED
                            THEN Put(timers, timer_id,
                                     [state EXCEPT
                                        !.status = RUNNING,
                                        !.total_time_paused = @ + (now - state.pause_time)])
                            ELSE timers
               /\ ret' = "state"
    /\ lastOp' = Called("resume", timer_id, <<>>)
    /\ UNCHANGED <<now, tps, runTime, db>>

\* a resume that does not count the pause that ends
ResumeTimerForgetsPause(timer_id) ==
    /\ IF timer_id \notin DOMAIN timers
       THEN /\ timers' = timers
            /\ ret' = "None"
       ELSE LET state == timers[timer_id]
            IN /\ timers' = IF state.status = PAUSED
                            THEN Put(timers, timer_id,
                                     [state EXCEPT !.status = RUNNING, !.pause_time = NoTime])
                            ELSE timers
               /\ ret' = "state"
    /\ lastOp' = Called("resume", timer_id, <<>>)
    /\ UNCHANGED <<now, tps, runTime, db>>

\* a resume that moves start_time past the pause instead of counting the pause
ResumeTimerShiftsStart(timer_id) ==
    /\ IF timer_id \notin DOMAIN timers
       THEN /\ timers' = timers
            /\ ret' = "None"
       ELSE LET state == timers[timer_id]
            IN /\ timers' = IF state.status = PAUSED
                            THEN Put(timers, timer_id,
                                     [state EXCEPT
                                        !.status = RUNNING,
                                        !.start_time = @ + (now - state.pause_time),
                                        !.pause_time = NoTime])
                            ELSE timers
               /\ ret' = "state"
    /\ lastOp' = Called("resume", timer_id, <<>>)
    /\ UNCHANGED <<now, tps, runTime, db>>

\* TimerStateManager.resume_timer
ResumeTimer(timer_id) ==
    /\ IF timer_id \notin DOMAIN timers
       THEN /\ timers' = timers
            /\ ret' = "None"
       ELSE LET state == timers[timer_id]
            IN /\ timers' = IF state.status = PAUSED
                            THEN Put(timers, timer_id,
                                     [state EXCEPT
                                        !.status = RUNNING,
                                        !.total_time_paused =
                                            IF state.pause_time # NoTime
                                            THEN @ + (now - state.pause_time)
                                            ELSE @,
                                        !.pause_time = NoTime])
                            ELSE timers
               /\ ret' = "state"
    /\ lastOp' = Called("resume", timer_id, <<>>)
    /\ UNCHANGED <<now, tps, runTime, db>>

\* a stop that counts the pause in progress into total_time_paused
StopTimerFoldsPause(timer_id) ==
    /\ IF timer_id \notin DOMAIN timers
       THEN /\ timers' = timers
            /\ ret' = "None"
       ELSE LET state == timers[timer_id]
                folded == IF state.status = PAUSED
                          THEN [state EXCEPT !.total_time_paused = @ + (now - state.pause_time)]
                          ELSE state
                u == UpdateState([folded EXCEPT !.status = STOPPED], now)
            IN /\ timers' = Put(timers, timer_id, u.state)
               /\ ret' = IF u.raised THEN "IndexError" ELSE "state"
    /\ lastOp' = Called("stop", timer_id, <<>>)
    /\ UNCHANGED <<now, tps, runTime, db>>

\* a stop that sets the status and leaves the record without the update
StopTimerNoUpdate(timer_id) ==
    /\ IF timer_id \notin DOMAIN timers
       THEN /\ timers' = timers
            /\ ret' = "None"
       ELSE /\ timers' = Put(timers, timer_id, [timers[timer_id] EXCEPT !.status = STOPPED])
            /\ ret' = "state"
    /\ lastOp' = Called("stop", timer_id, <<>>)
    /\ UNCHANGED <<now, tps, runTime, db>>

\* TimerStateManager.stop_timer
StopTimer(timer_id) ==
    /\ IF timer_id \notin DOMAIN timers
       THEN /\ timers' = timers
            /\ ret' = "None"
       ELSE LET u == UpdateState([timers[timer_id] EXCEPT !.status = STOPPED], now)
            IN /\ timers' = Put(timers, timer_id, u.state)
               /\ ret' = IF u.raised THEN "IndexError" ELSE "state"
    /\ lastOp' = Called("stop", timer_id, <<>>)
    /\ UNCHANGED <<now, tps, runTime, db>>

\* TimerStateManager.remove_timer (no task is ever registered in _tasks)
RemoveTimer(timer_id) ==
    /\ timers' = Pop(timers, timer_id)
    /\ ret' = "None"
    /\ lastOp' = Called("remove", timer_id, <<>>)
    /\ runTime' = [runTime EXCEPT ![timer_id] = 0]
    /\ UNCHANGED <<now, tps, db>>

\* a step taken outside any request: no caller's request moves
Direct == UNCHANGED <<calls, hist>>

Next ==
    \/ Tick /\ Direct
    \/ \E timer_id \in TimerIds, steps \in StepLists : StartTimer(timer_id, steps) /\ Direct
    \/ \E timer_id \in TimerIds : PauseTimer(timer_id) /\ Direct
    \/ \E timer_id \in TimerIds : ResumeTimer(timer_id) /\ Direct
    \/ \E timer_id \in TimerIds : StopTimer(timer_id) /\ Direct
    \/ \E timer_id \in TimerIds : GetTimerState(timer_id) /\ Direct
    \/ \E timer_id \in TimerIds : IsTimerRunning(timer_id) /\ Direct
    \/ \E timer_id \in TimerIds : RemoveTimer(timer_id) /\ Direct

Spec == Init /\ [][Next]_vars

\* --------------------------------------------------- action service
\* action_service.start_timer / pause_timer / resume_timer / stop_timer /
\* get_timer_status: the HTTP outcome of the call just made ("if not timer_state:
\* raise HTTPException(404, ...)", and "if not timer:" for the select of start);
\* an exception of the manager is not caught.
HttpResponse ==
    IF ret = "IndexError"
    THEN [status_code |-> 500, detail |-> "Internal Server Error"]
    ELSE IF ret = "None"
    THEN [status_code |-> 404,
          detail |-> CASE lastOp.op = "pause" -> "Timer not found or not running"
                       [] lastOp.op = "resume" -> "Timer not found or not paused"
                       [] OTHER -> "Timer not found"]
    ELSE [status_code |-> 200,
          detail |-> CASE lastOp.op = "start" -> "Timer started"
                       [] lastOp.op = "pause" -> "Timer paused"
                       [] lastOp.op = "resume" -> "Timer resumed"
                       [] lastOp.op = "stop" -> "Timer stopped"
                       [] OTHER -> "Timer status retrieved"]

\* the TimerActionResponse built from the TimerState the manager call returned
\* (the object stored under its timer_id)
ActionResponse ==
    LET timer_state == timers[lastOp.timer_id]
    IN [message |-> HttpResponse.detail,
        time_in_step |-> timer_state.time_in_step,
        time_in_timer |-> timer_state.time_in_timer,
        total_time |-> timer_state.total_duration,
        state |-> timer_state.status]

\* ------------------------------------------- timers table and start
\* The service over two timer identifiers whose definitions are created and
\* deleted in the timers table.
ServiceTimerIds == {1, 2}

\* the wall clock of the service runs from 0 to MaxServiceTime ticks
MaxServiceTime == 1

\* the step lists of the definitions that are created
ServiceStepLists ==
    {<<>>, <<[step_index |-> 0, duration_seconds |-> 1, repetitions |-> 1]>>}

\* the definitions that are created: timer 1 with or without steps, timer 2
\* with its step
ServiceDefinitions ==
    {d \in ServiceTimerIds \X ServiceStepLists : d[1] = 2 => d[2] # <<>>}

\* timer_service.create_timer: a definition with its steps enters the table
CreateTimer(timer_id, steps) ==
    /\ timer_id \notin DOMAIN db
    /\ db' = Put(db, timer_id, steps)
    /\ UNCHANGED <<now, tps, timers, ret, lastOp, runTime>>

\* timer_service.delete_timer: the definition and its steps leave the table;
\* the registry of the manager is not told
DeleteTimer(timer_id) ==
    /\ timer_id \in DOMAIN db
    /\ db' = Pop(db, timer_id)
    /\ UNCHANGED <<now, tps, timers, ret, lastOp, runTime>>

\* the select of action_service.start_timer found no row: HTTPException 404
\* raised before the manager is called
StartNotFound(timer_id) ==
    /\ ret' = "None"
    /\ lastOp' = Called("load", timer_id, <<>>)
    /\ UNCHANGED <<now, tps, timers, runTime, db>>

\* a start that takes a missing definition for one without steps
ActionStartTimerUnchecked(timer_id) ==
    StartTimer(timer_id, IF timer_id \in DOMAIN db THEN db[timer_id] ELSE <<>>)

\* action_service.start_timer run from the select to the response
ActionStartTimer(timer_id) ==
    IF timer_id \notin DOMAIN db
    THEN StartNotFound(timer_id)
    ELSE StartTimer(timer_id, db[timer_id])

InitService ==
    /\ now = 0
    /\ tps = 1
    /\ timers = [k \in {} |-> 0]
    /\ ret = "None"
    /\ lastOp = NoCall
    /\ runTime = [k \in ServiceTimerIds |-> 0]
    /\ db = [k \in {} |-> <<>>]
    /\ calls = [c \in {} |-> 0]
    /\ hist = <<>>

NextService ==
    \/ Tick /\ now < MaxServiceTime /\ Direct
    \/ \E d \in ServiceDefinitions : CreateTimer(d[1], d[2]) /\ Direct
    \/ \E timer_id \in ServiceTimerIds : DeleteTimer(timer_id) /\ Direct
    \/ \E timer_id \in ServiceTimerIds : ActionStartTimer(timer_id) /\ Direct
    \/ \E timer_id \in ServiceTimerIds : PauseTimer(timer_id) /\ Direct
    \/ \E timer_id \in ServiceTimerIds : ResumeTimer(timer_id) /\ Direct
    \/ \E timer_id \in ServiceTimerIds : StopTimer(timer_id) /\ Direct
    \/ \E timer_id \in ServiceTimerIds : GetTimerState(timer_id) /\ Direct
    \/ \E timer_id \in ServiceTimerIds : RemoveTimer(timer_id) /\ Direct

SpecService == InitService /\ [][NextService]_vars

\* ------------------------------------------- definitions that change
\* One timer whose definition gains and loses steps, or is deleted, while its
\* run goes on.

\* the step list as start_timer numbers it: step_index counts from 0
Renumber(steps) == [i \in 1..Len(steps) |-> [steps[i] EXCEPT !.step_index = i - 1]]

\* timer_service.add_timer_step: one more step of one second at the end of the
\* definition
AddTimerStep(timer_id) ==
    /\ timer_id \in DOMAIN db
    /\ Len(db[timer_id]) + 1 \in StepCounts
    /\ db' = [db EXCEPT ![timer_id] =
                 Append(@, [step_index |-> Len(@), duration_seconds |-> 1, repetitions |-> 1])]
    /\ UNCHANGED <<now, tps, timers, ret, lastOp, runTime>>

\* timer_service.delete_timer_step: the i-th step leaves the definition
DeleteTimerStep(timer_id, i) ==
    /\ timer_id \in DOMAIN db
    /\ i \in 1..Len(db[timer_id])
    /\ db' = [db EXCEPT ![timer_id] =
                 Renumber(SubSeq(@, 1, i - 1) \o SubSeq(@, i + 1, Len(@)))]
    /\ UNCHANGED <<now, tps, timers, ret, lastOp, runTime>>

NextDefinition ==
    \/ Tick /\ Direct
    \/ \E timer_id \in TimerIds, steps \in ServiceStepLists :
           CreateTimer(timer_id, steps) /\ Direct
    \/ \E timer_id \in TimerIds : DeleteTimer(timer_id) /\ Direct
    \/ \E timer_id \in TimerIds : AddTimerStep(timer_id) /\ Direct
    \/ \E timer_id \in TimerIds, i \in StepCounts : DeleteTimerStep(timer_id, i) /\ Direct
    \/ \E timer_id \in TimerIds : ActionStartTimer(timer_id) /\ Direct
    \/ \E timer_id \in TimerIds : PauseTimer(timer_id) /\ Direct
    \/ \E timer_id \in TimerIds : ResumeTimer(timer_id) /\ Direct
    \/ \E timer_id \in TimerIds : StopTimer(timer_id) /\ Direct
    \/ \E timer_id \in TimerIds : GetTimerState(timer_id) /\ Direct

SpecDefinition == Init /\ [][NextDefinition]_vars

\* ------------------------------------------------ concurrent callers
\* Every route is an "async def" served by one event loop, so a handler runs
\* without interruption from one await to the next.  Only start_timer awaits
\* (the select); pause, resume, stop and status run from the request to the
\* response in one piece.
Callers == {"a", "b"}

\* requests made in one behaviour
MaxCalls == 3

CallOps == {"start", "pause", "resume", "stop", "query"}

\* a caller without a request in flight
Idle == [pc |-> "idle", op |-> "none", timer_id |-> 0, row |-> "none",
         steps |-> <<>>, issued |-> 0]

InFlight == {c \in DOMAIN calls : calls[c].pc # "idle"}

\* the handler of caller c ran to its response: the request is recorded with
\* what it found, what it returned and the record it left
Serve(c) ==
    /\ calls' = [calls EXCEPT ![c] = Idle]
    /\ hist' = Append(hist, [op |-> calls[c].op,
                             timer_id |-> calls[c].timer_id,
                             issued |-> calls[c].issued,
                             t |-> now,
                             found |-> StatusOf(calls[c].timer_id),
                             ret |-> ret'])

\* caller c sends a request; it waits for the event loop
Issue(c, op, timer_id) ==
    /\ calls[c].pc = "idle"
    /\ Len(hist) + Cardinality(InFlight) < MaxCalls
    /\ calls' = [calls EXCEPT ![c] = [pc |-> "issued", op |-> op, timer_id |-> timer_id,
                                      row |-> "none", steps |-> <<>>,
                                      issued |-> Len(hist)]]
    /\ UNCHANGED <<now, tps, timers, ret, lastOp, runTime, db, hist>>

\* action_service.start_timer up to "await db.execute(stmt)": the row and its
\* steps are read while the handler is suspended
LoadTimer(c) ==
    /\ calls[c].pc = "issued"
    /\ calls[c].op = "start"
    /\ calls' = [calls EXCEPT ![c].pc = "loaded",
                              ![c].row = IF calls[c].timer_id \in DOMAIN db
                                         THEN "found" ELSE "missing",
                              ![c].steps = IF calls[c].timer_id \in DOMAIN db
                                           THEN db[calls[c].timer_id] ELSE <<>>]
    /\ UNCHANGED <<now, tps, timers, ret, lastOp, runTime, db, hist>>

\* action_service.start_timer from the result of the select to the response
HandleStart(c) ==
    /\ calls[c].pc = "loaded"
    /\ IF calls[c].row = "missing"
       THEN StartNotFound(calls[c].timer_id)
       ELSE StartTimer(calls[c].timer_id, calls[c].steps)
    /\ Serve(c)

\* action_service.pause_timer
HandlePause(c) ==
    /\ calls[c].pc = "issued"
    /\ calls[c].op = "pause"
    /\ PauseTimer(calls[c].timer_id)
    /\ Serve(c)

\* action_service.resume_timer
HandleResume(c) ==
    /\ calls[c].pc = "issued"
    /\ calls[c].op = "resume"
    /\ ResumeTimer(calls[c].timer_id)
    /\ Serve(c)

\* action_service.stop_timer
HandleStop(c) ==
    /\ calls[c].pc = "issued"
    /\ calls[c].op = "stop"
    /\ StopTimer(calls[c].timer_id)
    /\ Serve(c)

\* action_service.get_timer_status
HandleStatus(c) ==
    /\ calls[c].pc = "issued"
    /\ calls[c].op = "query"
    /\ GetTimerState(calls[c].timer_id)
    /\ Serve(c)

\* the timers table holds no row, or one definition for timer 1; no definition
\* is created or deleted while the callers run
InitConcurrent ==
    /\ now = 0
    /\ tps = 1
    /\ timers = [k \in {} |-> 0]
    /\ ret = "None"
    /\ lastOp = NoCall
    /\ runTime = [k \in TimerIds |-> 0]
    /\ db \in {[k \in {} |-> <<>>]} \cup {[k \in TimerIds |-> steps] : steps \in ServiceStepLists}
    /\ calls = [c \in Callers |-> Idle]
    /\ hist = <<>>

NextConcurrent ==
    \/ Tick /\ now < MaxServiceTime /\ Direct
    \/ \E c \in Callers, op \in CallOps, timer_id \in TimerIds : Issue(c, op, timer_id)
    \/ \E c \in Callers : LoadTimer(c)
    \/ \E c \in Callers : HandleStart(c)
    \/ \E c \in Callers : HandlePause(c)
    \/ \E c \in Callers : HandleResume(c)
    \/ \E c \in Callers : HandleStop(c)
    \/ \E c \in Callers : HandleStatus(c)

SpecConcurrent == InitConcurrent /\ [][NextConcurrent]_vars

\* ------------------------------------------------- sub-second clock
\* datetime.now() has a resolution finer than the second: the same manager with
\* the clock read in ticks of 1/TicksPerSecond s.
TicksPerSecond == 2

InitSubSecond ==
    /\ now = 0
    /\ tps = TicksPerSecond
    /\ timers = [k \in {} |-> 0]
    /\ ret = "None"
    /\ lastOp = NoCall
    /\ runTime = [k \in TimerIds |-> 0]
    /\ db = [k \in {} |-> <<>>]
    /\ calls = [c \in {} |-> 0]
    /\ hist = <<>>

SpecSubSecond == InitSubSecond /\ [][Next]_vars

\* ------------------------------------------------ a run left alone
\* A timer with steps is started once and then only queried, under a clock
\* that keeps advancing and queries that keep coming.  The run is one that
\* ends within the clock readings the model covers.
StartOnce(timer_id, steps) ==
    /\ timer_id \notin DOMAIN timers
    /\ Len(steps) > 0
    /\ now + CalculateTotalDuration(steps) * tps <= MaxTime
    /\ StartTimer(timer_id, steps)

NextLeftAlone ==
    \/ Tick /\ Direct
    \/ \E timer_id \in TimerIds, steps \in StepLists : StartOnce(timer_id, steps) /\ Direct
    \/ \E timer_id \in TimerIds : GetTimerState(timer_id) /\ Direct

SpecLeftAlone ==
    /\ Init
    /\ [][NextLeftAlone]_vars
    /\ WF_vars(Tick /\ Direct)
    /\ WF_vars(\E timer_id \in TimerIds : GetTimerState(timer_id) /\ Direct)

\* ------------------------------------------------ one run, queried
\* One run per timer id: start_timer only where the registry holds no record,
\* no removal, and get_timer_state the only recomputation besides the start.
NextOneRun ==
    \/ Tick /\ Direct
    \/ \E timer_id \in TimerIds, steps \in StepLists :
          timer_id \notin DOMAIN timers /\ StartTimer(timer_id, steps) /\ Direct
    \/ \E timer_id \in TimerIds : PauseTimer(timer_id) /\ Direct
    \/ \E timer_id \in TimerIds : ResumeTimer(timer_id) /\ Direct
    \/ \E timer_id \in TimerIds : GetTimerState(timer_id) /\ Direct

SpecOneRun == Init /\ [][NextOneRun]_vars

\* ------------------------------------------------------------ claims

\* the record the call just made was about, when it is still stored
Rec == timers[lastOp.timer_id]
HasRec == lastOp.timer_id \in DOMAIN timers

\* C1: pause on a record whose status is Paused, Stopped or Finished returns
\* absent (None), which the action service turns into 404 'Timer not found or
\* not running'.
C1_PauseNonRunningIsAbsent ==
    (lastOp.op = "pause" /\ lastOp.found \in {PAUSED, STOPPED, FINISHED})
        => /\ ret = "None"
           /\ HttpResponse = [status_code |-> 404, detail |-> "Timer not found or not running"]

\* C2: resume on a record whose status is Running, Stopped or Finished returns
\* absent (None), which the action service turns into 404 'Timer not found or
\* not paused'.
C2_ResumeNonPausedIsAbsent ==
    (lastOp.op = "resume" /\ lastOp.found \in {RUNNING, STOPPED, FINISHED})
        => /\ ret = "None"
           /\ HttpResponse = [status_code |-> 404, detail |-> "Timer not found or not paused"]

\* C3: pause freezes time: a query that finds the timer Paused and leaves it
\* Paused reports the time_in_timer a query at the instant of the pause
\* reports, (pause_time - start_time) - total_time_paused in whole seconds.
C3_PauseFreezesTime ==
    (lastOp.op = "query" /\ lastOp.found = PAUSED /\ HasRec /\ Rec.status = PAUSED)
        => Rec.time_in_timer = ElapsedSeconds(Rec, Rec.pause_time)

\* C4: resume preserves elapsed (whole-second timestamps, tps = 1): once a
\* pause/resume cycle has completed, a query of the Running timer reports a
\* time_in_timer equal to the time the run has spent Running; this covers the
\* query at the instant of the last resume.
C4_ResumePreservesElapsed ==
    (lastOp.op = "query" /\ lastOp.found = RUNNING /\ HasRec /\ Rec.total_time_paused > 0)
        => /\ ret = "state"
           /\ Rec.time_in_timer = TotalSeconds(runTime[lastOp.timer_id])

\* C5: stop on an existing record, whatever its status and whatever the
\* instant, returns a record whose status is Stopped.
C5_StopAlwaysStopped ==
    (lastOp.op = "stop" /\ lastOp.found # "absent")
        => /\ ret = "state"
           /\ HasRec
           /\ Rec.status = STOPPED

\* C6: after Stop the run is frozen: a query of a Stopped timer returns it
\* Stopped, with the time_in_timer, step index, repetition and time-in-step it
\* had (those the Stop call, or the query before, returned).
C6_StoppedIsFrozen ==
    [][\A t \in TimerIds :
         (GetTimerState(t) /\ t \in DOMAIN timers /\ timers[t].status = STOPPED)
             => /\ ret' = "state"
                /\ timers'[t].status = STOPPED
                /\ timers'[t].time_in_timer = timers[t].time_in_timer
                /\ timers'[t].current_step_index = timers[t].current_step_index
                /\ timers'[t].current_repetition = timers[t].current_repetition
                /\ timers'[t].time_in_step = timers[t].time_in_step]_vars

C8_EmptyStepsFinished ==
    (lastOp.op = "query" /\ lastOp.found = RUNNING /\ HasRec
       /\ Rec.steps = <<>> /\ Rec.start_time = now)
        => /\ ret = "state"
           /\ Rec.status = FINISHED
           /\ Rec.total_duration = 0
           /\ Rec.time_in_timer = 0
           /\ Rec.time_in_step = 0
           /\ Rec.current_step_index = 0

\* C9: the core operations are total: no call of start, pause, resume, stop,
\* query or remove raises an exception.
C9_NoCallRaises == ret # "IndexError"

\* the sum over steps of duration x repetitions
RECURSIVE DurationOf(_)
DurationOf(steps) ==
    IF steps = <<>> THEN 0
    ELSE Head(steps).duration_seconds * Head(steps).repetitions + DurationOf(Tail(steps))

\* C10: start replaces the prior run: after start the identifier has one
\* record, made of the new step list only: Running, elapsed 0, step index 0,
\* repetition 1, time-in-step 0, no pause_time, no paused time, started now.
C10_StartReplaces ==
    lastOp.op = "start"
        => /\ ret = "state"
           /\ HasRec
           /\ Rec = [timer_id |-> lastOp.timer_id,
                     status |-> RUNNING,
                     steps |-> lastOp.steps,
                     current_step_index |-> 0,
                     current_repetition |-> 1,
                     time_in_step |-> 0,
                     time_in_timer |-> 0,
                     start_time |-> now,
                     total_duration |-> DurationOf(lastOp.steps),
                     pause_time |-> NoTime,
                     total_time_paused |-> 0]

\* start has just replaced the record of a run that was Paused, at a later
\* instant and with a two-step list
C10_Witness ==
    /\ lastOp.op = "start" /\ lastOp.found = PAUSED
    /\ now > 0
    /\ Len(lastOp.steps) = 2
    /\ HasRec /\ Rec.status = RUNNING

\* C11: total duration formula: the record returned by start has a
\* total_duration equal to the sum over the steps handed to start of
\* duration x repetitions, 0 for the empty list.
C11_TotalDuration ==
    lastOp.op = "start"
        => /\ ret = "state"
           /\ HasRec
           /\ Rec.total_duration = DurationOf(lastOp.steps)
           /\ lastOp.steps = <<>> => Rec.total_duration = 0

\* start has just returned the record of a two-step list whose second step
\* repeats, so that the total exceeds the sum of the durations
C11_Witness ==
    /\ lastOp.op = "start" /\ HasRec
    /\ Len(lastOp.steps) = 2
    /\ lastOp.steps[2].repetitions = 2
    /\ Rec.total_duration
         > lastOp.steps[1].duration_seconds + lastOp.steps[2].duration_seconds

\* C12: monotonicity while running: when a query has just returned the timer
\* Running at instant t1 = now, a query at any later instant t2, with no pause,
\* resume, stop or start in between, reports a time_in_timer at least as large.
C12_MonotoneWhileRunning ==
    (lastOp.op = "query" /\ HasRec /\ ret = "state" /\ Rec.status = RUNNING)
        => \A t2 \in (now + 1)..(MaxTime + 1) :
               UpdateState(Rec, t2).state.time_in_timer >= Rec.time_in_timer

\* a query has just returned a timer Running with one second of activity,
\* after a pause of some length, and a later query is still to come
C12_Witness ==
    /\ lastOp.op = "query" /\ HasRec /\ ret = "state" /\ Rec.status = RUNNING
    /\ Rec.total_time_paused > 0
    /\ Rec.time_in_timer = 1
    /\ UpdateState(Rec, now + 1).state.time_in_timer = 2

\* C13: idempotent query: when a query has just been made, a second query of
\* the same identifier at the same instant leaves the record as it is (status,
\* time_in_timer, step index, repetition, time-in-step) and ends as the first
\* one did, in every status.
C13_IdempotentQuery ==
    (lastOp.op = "query" /\ HasRec)
        => LET again == UpdateState(Rec, now)
           IN /\ again.state = Rec
              /\ again.raised <=> (ret = "IndexError")

\* a query has just found a timer Paused, in the second repetition of a step
C13_Witness ==
    /\ lastOp.op = "query" /\ lastOp.found = PAUSED /\ HasRec
    /\ Rec.status = PAUSED
    /\ Rec.current_repetition = 2
    /\ Rec.time_in_timer > 0

\* the time taken by the steps before the one at 0-based position i
PrefixTime(steps, i) == DurationOf(SubSeq(steps, 1, i))

\* the 0-based position of the step in which elapsed time e falls
StepOf(steps, e) ==
    CHOOSE i \in 0..(Len(steps) - 1) :
        /\ PrefixTime(steps, i) <= e
        /\ e < PrefixTime(steps, i + 1)

\* C14: repetition-boundary rule: a query that returns a run not Finished,
\* whose elapsed time falls in step i at offset r, reports repetition
\* floor(r / duration_i) + 1 and time-in-step r mod duration_i, except that at
\* r mod duration_i = 0 with repetition > 1 it reports duration_i; at r = 0 it
\* reports repetition 1 and time 0.
C14_RepetitionBoundary ==
    (lastOp.op = "query" /\ HasRec /\ ret = "state" /\ Rec.status # FINISHED)
        => LET i == StepOf(Rec.steps, Rec.time_in_timer)
               d == Rec.steps[i + 1].duration_seconds
               r == Rec.time_in_timer - PrefixTime(Rec.steps, i)
               repetition == (r \div d) + 1
           IN /\ Rec.current_repetition = repetition
              /\ Rec.time_in_step = IF r % d = 0 /\ repetition > 1 THEN d ELSE r % d
              /\ r = 0 => (Rec.current_repetition = 1 /\ Rec.time_in_step = 0)

\* a query has just reported the boundary between the two repetitions of the
\* second step of a list: repetition 2, time-in-step equal to the duration
C14_Witness ==
    /\ lastOp.op = "query" /\ HasRec /\ ret = "state" /\ Rec.status = RUNNING
    /\ Len(Rec.steps) = 2
    /\ Rec.current_step_index = 1
    /\ Rec.current_repetition = 2
    /\ Rec.time_in_step = Rec.steps[2].duration_seconds
    /\ Rec.time_in_timer = PrefixTime(Rec.steps, 1) + Rec.steps[2].duration_seconds

\* C16: no stored record has pause_time set while its status is Running, and
\* none has status Paused while pause_time is absent.
C16_PauseTimeMatchesStatus ==
    \A k \in DOMAIN timers :
        /\ timers[k].status = RUNNING => timers[k].pause_time = NoTime
        /\ timers[k].status = PAUSED => timers[k].pause_time # NoTime

\* a resume has just turned a timer that was paused for some time Running
C16_Witness ==
    /\ lastOp.op = "resume" /\ lastOp.found = PAUSED /\ HasRec
    /\ Rec.status = RUNNING
    /\ Rec.pause_time = NoTime
    /\ Rec.total_time_paused > 0

\* C15: a pause, resume, stop or query for an identifier that has no record
\* returns None, creates no record for it and changes no other record: the
\* registry is left as it was.
C15_UnknownIdentifier ==
    [][\A timer_id \in ServiceTimerIds :
          (/\ timer_id \notin DOMAIN timers
           /\ \/ PauseTimer(timer_id)
              \/ ResumeTimer(timer_id)
              \/ StopTimer(timer_id)
              \/ GetTimerState(timer_id))
              => (ret' = "None" /\ timers' = timers /\ HttpResponse'.status_code = 404)]_vars

C15_Witness ==
    /\ lastOp.op \in {"pause", "resume", "stop", "query"}
    /\ lastOp.found = "absent"
    /\ ret = "None"
    /\ lastOp.timer_id \notin DOMAIN timers
    /\ \E b \in DOMAIN timers : b # lastOp.timer_id /\ timers[b].status = RUNNING

\* C18: a start, pause, resume, stop, query or remove for identifier A leaves
\* every other identifier B as it was: B has a record after the call exactly when
\* it had one before, with every field unchanged.
C18_TimersIndependent ==
    [][\A a \in ServiceTimerIds :
          (\/ ActionStartTimer(a)
           \/ PauseTimer(a)
           \/ ResumeTimer(a)
           \/ StopTimer(a)
           \/ GetTimerState(a)
           \/ RemoveTimer(a))
              => \A b \in ServiceTimerIds \ {a} :
                    /\ (b \in DOMAIN timers') <=> (b \in DOMAIN timers)
                    /\ b \in DOMAIN timers => timers'[b] = timers[b]]_vars

C18_Witness ==
    /\ lastOp.op = "pause"
    /\ lastOp.timer_id = 1
    /\ lastOp.found = RUNNING
    /\ 1 \in DOMAIN timers /\ timers[1].status = PAUSED
    /\ 2 \in DOMAIN timers /\ timers[2].status = RUNNING

\* C19: a start request for an identifier without a row in the timers table is
\* answered 404 "Timer not found" and leaves the registry as it was, a record
\* kept from a deleted definition included.
C19_StartWithoutDefinition ==
    [][\A timer_id \in ServiceTimerIds :
          (ActionStartTimer(timer_id) /\ timer_id \notin DOMAIN db)
              => /\ HttpResponse' = [status_code |-> 404, detail |-> "Timer not found"]
                 /\ timers' = timers]_vars

C19_Witness ==
    /\ lastOp.op = "load"
    /\ ret = "None"
    /\ lastOp.timer_id \notin DOMAIN db
    /\ lastOp.timer_id \in DOMAIN timers
    /\ HttpResponse = [status_code |-> 404, detail |-> "Timer not found"]

\* C20: the response to starting a definition without steps is 200 "Timer
\* started" with state "running", total_time 0, time_in_step 0 and
\* time_in_timer 0.
C20_StartEmptyResponse ==
    (lastOp.op = "start" /\ lastOp.steps = <<>>)
        => /\ ret = "state"
           /\ HttpResponse.status_code = 200
           /\ ActionResponse = [message |-> "Timer started",
                                time_in_step |-> 0,
                                time_in_timer |-> 0,
                                total_time |-> 0,
                                state |-> "running"]

C20_Witness ==
    /\ lastOp.op = "start"
    /\ lastOp.timer_id \in DOMAIN db
    /\ db[lastOp.timer_id] = <<>>
    /\ lastOp.steps = <<>>
    /\ lastOp.found = FINISHED
    /\ ActionResponse.state = "running"

\* the manager calls run one at a time: the registry and the return value that
\* request e leaves when it is the only one running, at clock reading e.t
Sequential(ts, e) ==
    LET id == e.timer_id
        known == id \in DOMAIN ts
    IN CASE e.op = "start" ->
               IF id \in DOMAIN db
               THEN [timers |-> Put(ts, id, NewTimerState(id, db[id], e.t)), ret |-> "state"]
               ELSE [timers |-> ts, ret |-> "None"]
         [] e.op = "pause" ->
               IF ~known THEN [timers |-> ts, ret |-> "None"]
               ELSE IF ts[id].status = RUNNING
               THEN [timers |-> Put(ts, id, [ts[id] EXCEPT !.status = PAUSED,
                                                            !.pause_time = e.t]),
                     ret |-> "state"]
               ELSE [timers |-> ts, ret |-> "state"]
         [] e.op = "resume" ->
               IF ~known THEN [timers |-> ts, ret |-> "None"]
               ELSE IF ts[id].status = PAUSED
               THEN [timers |-> Put(ts, id,
                                    [ts[id] EXCEPT !.status = RUNNING,
                                                   !.total_time_paused =
                                                       @ + (e.t - ts[id].pause_time),
                                                   !.pause_time = NoTime]),
                     ret |-> "state"]
               ELSE [timers |-> ts, ret |-> "state"]
         [] e.op = "stop" ->
               IF ~known THEN [timers |-> ts, ret |-> "None"]
               ELSE LET u == UpdateState([ts[id] EXCEPT !.status = STOPPED], e.t)
                    IN [timers |-> Put(ts, id, u.state),
                        ret |-> IF u.raised THEN "IndexError" ELSE "state"]
         [] OTHER ->
               IF ~known THEN [timers |-> ts, ret |-> "None"]
               ELSE LET u == UpdateState(ts[id], e.t)
                    IN [timers |-> Put(ts, id, u.state),
                        ret |-> IF u.raised THEN "IndexError" ELSE "state"]

\* the registry after the first n requests of h ran one at a time, in the order of h
RECURSIVE Replay(_, _)
Replay(h, n) ==
    IF n = 0 THEN [k \in {} |-> 0] ELSE Sequential(Replay(h, n - 1), h[n]).timers

\* C17: the requests served so far, taken in the order their handlers ran, are
\* a sequential order that explains the outcome: run one at a time in that
\* order they return what the callers got and leave the registry as it is; the
\* order keeps every request after those that had returned when it was issued;
\* and a resume or query issued after a pause returned, with no start, resume or
\* stop in between, does not find the timer Running.
C17_Linearizable ==
    /\ Replay(hist, Len(hist)) = timers
    /\ \A i \in 1..Len(hist) :
          /\ Sequential(Replay(hist, i - 1), hist[i]).ret = hist[i].ret
          /\ hist[i].issued < i
    /\ \A i, j \in 1..Len(hist) :
          (/\ i < j
           /\ hist[i].op = "pause" /\ hist[i].found = RUNNING /\ hist[i].ret = "state"
           /\ hist[j].op \in {"resume", "query"}
           /\ hist[j].timer_id = hist[i].timer_id
           /\ hist[j].issued >= i
           /\ \A k \in (i + 1)..(j - 1) : hist[k].op \notin {"start", "resume", "stop"})
              => hist[j].found \in {PAUSED, FINISHED}

\* a pause issued while a start was in flight, and a resume issued after the
\* pause returned that finds the timer Paused
C17_Witness ==
    /\ Len(hist) = 3
    /\ hist[1].op = "start" /\ hist[1].ret = "state"
    /\ hist[2].op = "pause" /\ hist[2].issued = 0 /\ hist[2].found = RUNNING
    /\ hist[3].op = "resume" /\ hist[3].issued = 2 /\ hist[3].found = PAUSED
    /\ timers[1].status = RUNNING

\* C21: is_timer_running returns True or False, and True exactly when the
\* identifier has a record whose status, recomputed at the instant of the call,
\* is RUNNING.
C21_IsRunningIffRunning ==
    lastOp.op = "is_running"
        => /\ ret \in {"True", "False"}
           /\ (ret = "True") <=> (HasRec /\ Rec.status = RUNNING)

\* C22: every call that returns a TimerState returns one whose time_in_step and
\* time_in_timer are not negative.
C22_TimesNotNegative ==
    (ret = "state" /\ HasRec /\ lastOp.op \in {"start", "pause", "resume", "stop", "query"})
        => /\ Rec.time_in_step >= 0
           /\ Rec.time_in_timer >= 0
           /\ ActionResponse.time_in_step >= 0
           /\ ActionResponse.time_in_timer >= 0

C22_Witness ==
    /\ lastOp.op = "stop"
    /\ ret = "state"
    /\ HasRec
    /\ Rec.total_time_paused > 0
    /\ Rec.time_in_timer > 0
    /\ Rec.time_in_step > 0
    /\ now - Rec.start_time > Rec.time_in_timer

\* C23: remove_timer returns nothing and leaves no record under the identifier,
\* whatever status it finds; with no record to remove it leaves the registry as
\* it was, so a second removal changes nothing; and a query, pause, resume or
\* stop that follows the removal returns None.
C23_RemoveUnconditional ==
    [][\A timer_id \in TimerIds :
          /\ RemoveTimer(timer_id)
                => /\ timer_id \notin DOMAIN timers'
                   /\ ret' = "None"
                   /\ \A k \in DOMAIN timers \ {timer_id} :
                         k \in DOMAIN timers' /\ timers'[k] = timers[k]
                   /\ timer_id \notin DOMAIN timers => timers' = timers
          /\ (/\ lastOp.op = "remove"
              /\ lastOp.timer_id = timer_id
              /\ \/ GetTimerState(timer_id)
                 \/ PauseTimer(timer_id)
                 \/ ResumeTimer(timer_id)
                 \/ StopTimer(timer_id))
                => (ret' = "None" /\ timers' = timers)]_vars

\* a removal that found a record under the identifier
C23_Witness ==
    /\ lastOp.op = "remove"
    /\ lastOp.found \in {RUNNING, PAUSED, STOPPED, FINISHED}
    /\ ret = "None"
    /\ ~HasRec

\* C24: a pause that finds status RUNNING leaves the record with status PAUSED
\* and pause_time the instant of the call, and every other field (start_time,
\* total_time_paused, steps, total_duration among them) as it was.
C24_PauseFrame ==
    [][\A timer_id \in TimerIds :
          (PauseTimer(timer_id) /\ StatusOf(timer_id) = RUNNING)
              => /\ ret' = "state"
                 /\ timers'[timer_id] = [timers[timer_id] EXCEPT !.status = PAUSED,
                                                                !.pause_time = now]]_vars

\* a second pause of a run, taken after the clock has advanced
C24_Witness ==
    /\ lastOp.op = "pause"
    /\ lastOp.found = RUNNING
    /\ HasRec
    /\ Rec.status = PAUSED
    /\ Rec.pause_time = now
    /\ Rec.total_time_paused > 0
    /\ Rec.pause_time > Rec.start_time

\* C25: a resume that finds status PAUSED leaves the record with status
\* RUNNING, total_time_paused grown by exactly the instant of the call less
\* pause_time, no pause_time, and every other field as it was.
C25_ResumeAccumulates ==
    [][\A timer_id \in TimerIds :
          (ResumeTimer(timer_id) /\ StatusOf(timer_id) = PAUSED)
              => /\ ret' = "state"
                 /\ timers'[timer_id] =
                       [timers[timer_id] EXCEPT
                           !.status = RUNNING,
                           !.total_time_paused = @ + (now - timers[timer_id].pause_time),
                           !.pause_time = NoTime]]_vars

\* a resume that brings the paused time of a three-tick-old run to two ticks
C25_Witness ==
    /\ lastOp.op = "resume"
    /\ lastOp.found = PAUSED
    /\ HasRec
    /\ Rec.status = RUNNING
    /\ Rec.pause_time = NoTime
    /\ Rec.total_time_paused = 2
    /\ now - Rec.start_time = 3

\* the steps in whose span of the run the elapsed time e falls
StepsHolding(steps, e) ==
    {i \in 0..(Len(steps) - 1) : PrefixTime(steps, i) <= e /\ e < PrefixTime(steps, i + 1)}

\* C26: a query that returns a record not FINISHED has an elapsed time in
\* [0, total_duration), exactly one step holds that time in its span, and
\* current_step_index is that step.
C26_StepLocation ==
    (lastOp.op = "query" /\ HasRec /\ ret = "state" /\ Rec.status # FINISHED)
        => /\ 0 <= Rec.time_in_timer /\ Rec.time_in_timer < Rec.total_duration
           /\ StepsHolding(Rec.steps, Rec.time_in_timer) = {Rec.current_step_index}

\* a query that finds the run at the very first second of its second step
C26_Witness ==
    /\ lastOp.op = "query"
    /\ HasRec
    /\ ret = "state"
    /\ Rec.status = RUNNING
    /\ Len(Rec.steps) = 2
    /\ Rec.steps[1].repetitions = 2
    /\ Rec.current_step_index = 1
    /\ Rec.time_in_timer = PrefixTime(Rec.steps, 1)
    /\ Rec.time_in_step = 0

\* C27: a query of a timer with steps that is PAUSED, its pause begun before
\* the run was complete, leaves it PAUSED, however late the query comes.
C27_PausedStaysPaused ==
    (/\ lastOp.op = "query"
     /\ lastOp.found = PAUSED
     /\ HasRec
     /\ Len(Rec.steps) > 0
     /\ TotalSeconds((Rec.pause_time - Rec.start_time) - Rec.total_time_paused)
            < Rec.total_duration)
        => Rec.status = PAUSED

\* C28: the record that a pause of a RUNNING timer or a resume of a PAUSED
\* timer returns, for a timer with steps, carries the time_in_timer, step index,
\* repetition and time_in_step that the update at the instant of the call gives.
C28_PauseResumeRecomputed ==
    (/\ \/ lastOp.op = "pause" /\ lastOp.found = RUNNING
        \/ lastOp.op = "resume" /\ lastOp.found = PAUSED
     /\ ret = "state"
     /\ HasRec
     /\ Len(Rec.steps) > 0)
        => LET fresh == UpdateState(Rec, now).state
           IN /\ Rec.time_in_timer = fresh.time_in_timer
              /\ Rec.current_step_index = fresh.current_step_index
              /\ Rec.current_repetition = fresh.current_repetition
              /\ Rec.time_in_step = fresh.time_in_step

\* C29: a stop that finds a timer with steps PAUSED returns the seconds of
\* activity up to the instant the pause began: the pause in progress is left
\* out of time_in_timer.
C29_StopExcludesPause ==
    (/\ lastOp.op = "stop"
     /\ lastOp.found = PAUSED
     /\ ret = "state"
     /\ HasRec
     /\ Len(Rec.steps) > 0)
        => Rec.time_in_timer =
              TotalSeconds((Rec.pause_time - Rec.start_time) - Rec.total_time_paused)

\* C30: a query that finds a timer with steps RUNNING and leaves it RUNNING
\* reports as time_in_timer the whole seconds of the one duration
\* (now - start_time) - total_time_paused.
C30_FloorOfDifference ==
    (/\ lastOp.op = "query"
     /\ lastOp.found = RUNNING
     /\ ret = "state"
     /\ HasRec
     /\ Rec.status = RUNNING)
        => Rec.time_in_timer = TotalSeconds((now - Rec.start_time) - Rec.total_time_paused)

\* C31: a pause, resume, stop or query leaves the steps, total_duration and
\* start_time of the record as they were.
C31_RunFieldsFixed ==
    [][\A timer_id \in TimerIds :
          (/\ timer_id \in DOMAIN timers
           /\ lastOp'.op \in {"pause", "resume", "stop", "query"}
           /\ \/ PauseTimer(timer_id)
              \/ ResumeTimer(timer_id)
              \/ StopTimer(timer_id)
              \/ GetTimerState(timer_id))
              => /\ timer_id \in DOMAIN timers'
                 /\ timers'[timer_id].steps = timers[timer_id].steps
                 /\ timers'[timer_id].total_duration = timers[timer_id].total_duration
                 /\ timers'[timer_id].start_time = timers[timer_id].start_time]_vars

\* a resume that counted a pause, on a run started after the clock began
C31_Witness ==
    /\ lastOp.op = "resume"
    /\ lastOp.found = PAUSED
    /\ HasRec
    /\ Rec.start_time > 0
    /\ Rec.total_time_paused > 0
    /\ Len(Rec.steps) = 2
    /\ Rec.total_duration = DurationOf(Rec.steps)

\* C33: whatever the step, a record that is not replaced by a start keeps a
\* total_time_paused at least as large as before, and a larger one only when
\* the step is a resume that found the timer PAUSED.
C33_TotalPausedMonotone ==
    [][\A timer_id \in (DOMAIN timers) \cap (DOMAIN timers') :
          ~(lastOp'.op = "start" /\ lastOp'.timer_id = timer_id /\ lastOp' # lastOp)
              => /\ timers'[timer_id].total_time_paused >= timers[timer_id].total_time_paused
                 /\ timers'[timer_id].total_time_paused # timers[timer_id].total_time_paused
                       => /\ lastOp'.op = "resume"
                          /\ lastOp'.timer_id = timer_id
                          /\ lastOp'.found = PAUSED]_vars

\* a resume that brings total_time_paused to two ticks
C33_Witness ==
    /\ lastOp.op = "resume"
    /\ lastOp.found = PAUSED
    /\ HasRec
    /\ Rec.total_time_paused = 2
    /\ Rec.start_time = 0
    /\ now = 3

\* C32: a step that creates or deletes the definition, or adds or deletes one
\* of its steps, leaves the registry as it was; and what a pause, resume, stop
\* or query returns and leaves is what the registry and the clock alone give,
\* whatever the timers table holds at the time of the call.
C32_DefinitionNotRefetched ==
    [][\A timer_id \in TimerIds :
          /\ db' # db => timers' = timers
          /\ \A op \in {"pause", "resume", "stop", "query"} :
                (CASE op = "pause" -> PauseTimer(timer_id)
                   [] op = "resume" -> ResumeTimer(timer_id)
                   [] op = "stop" -> StopTimer(timer_id)
                   [] OTHER -> GetTimerState(timer_id))
                   => LET alone == Sequential(timers, [op |-> op, timer_id |-> timer_id,
                                                       t |-> now])
                      IN timers' = alone.timers /\ ret' = alone.ret]_vars

\* a query of a run whose timer definition has since lost a step
C32_Witness ==
    /\ lastOp.op = "query"
    /\ ret = "state"
    /\ HasRec
    /\ Len(Rec.steps) = 2
    /\ Rec.time_in_timer = 1
    /\ Rec.current_step_index = 1
    /\ lastOp.timer_id \in DOMAIN db
    /\ Len(db[lastOp.timer_id]) = 1

\* C34: a query for an identifier that has a record returns that record.
C34_QueryReturnsRecord ==
    (lastOp.op = "query" /\ lastOp.found # "absent") => (ret = "state" /\ HasRec)

\* C35: every record with steps has current_step_index among the indices of
\* its steps, current_repetition between 1 and the repetitions of that step, and
\* time_in_step between 0 and the duration of that step.
C35_ProgressInRange ==
    \A k \in DOMAIN timers :
        Len(timers[k].steps) > 0
            => /\ timers[k].current_step_index \in 0..(Len(timers[k].steps) - 1)
               /\ LET step == timers[k].steps[timers[k].current_step_index + 1]
                  IN /\ timers[k].current_repetition \in 1..step.repetitions
                     /\ timers[k].time_in_step \in 0..step.duration_seconds

\* a query that finds the run in the last repetition of its last step
C35_Witness ==
    /\ lastOp.op = "query"
    /\ ret = "state"
    /\ HasRec
    /\ Rec.status = RUNNING
    /\ Len(Rec.steps) = 2
    /\ Rec.current_step_index = 1
    /\ Rec.steps[2].repetitions = 2
    /\ Rec.current_repetition = 2

\* C36: a query that returns a record not FINISHED reports a time_in_step that,
\* added to the time of the steps before the current one and of the
\* repetitions of the current step before the current one, gives time_in_timer.
C36_TimeInStepConsistent ==
    (lastOp.op = "query" /\ HasRec /\ ret = "state" /\ Rec.status # FINISHED)
        => PrefixTime(Rec.steps, Rec.current_step_index)
              + (Rec.current_repetition - 1)
                   * Rec.steps[Rec.current_step_index + 1].duration_seconds
              + Rec.time_in_step
           = Rec.time_in_timer

\* C37: for a timer with steps that is started and then left alone, every
\* query made at or after start_time + total_duration returns it FINISHED, and
\* with the clock advancing and queries coming every run is in the end FINISHED.
C37_LazyFinishObserved ==
    /\ []((/\ lastOp.op = "query"
           /\ HasRec
           /\ now >= Rec.start_time + Rec.total_duration * tps)
              => (ret = "state" /\ Rec.status = FINISHED))
    /\ \A k \in TimerIds :
          (k \in DOMAIN timers) ~> (k \in DOMAIN timers /\ timers[k].status = FINISHED)

\* the query that finds a two-step run Running at the instant it is complete
C37_Witness ==
    /\ lastOp.op = "query"
    /\ lastOp.found = RUNNING
    /\ ret = "state"
    /\ HasRec
    /\ Len(Rec.steps) = 2
    /\ now = Rec.start_time + Rec.total_duration * tps
    /\ Rec.status = FINISHED

\* C38: within one run the time_in_timer values reported by successive
\* queries never decrease.  Under SpecOneRun the value a record holds is the
\* one the last query reported (0 after the start), so the value a query
\* reports is compared with the value the record held before it.
C38_ReportedTimeMonotone ==
    [][\A timer_id \in TimerIds :
          (/\ timer_id \in DOMAIN timers
           /\ Len(timers[timer_id].steps) > 0
           /\ GetTimerState(timer_id))
             => timers'[timer_id].time_in_timer >= timers[timer_id].time_in_timer]_vars

\* C39: for a run with steps whose record has status FINISHED, every pause,
\* resume, stop and query of it returns the record and leaves it FINISHED.
C39_FinishedIsAbsorbing ==
    [][\A timer_id \in TimerIds :
          (/\ timer_id \in DOMAIN timers
           /\ Len(timers[timer_id].steps) > 0
           /\ timers[timer_id].status = FINISHED
           /\ \/ PauseTimer(timer_id)
              \/ ResumeTimer(timer_id)
              \/ StopTimer(timer_id)
              \/ GetTimerState(timer_id))
             => /\ timer_id \in DOMAIN timers'
                /\ timers'[timer_id].status = FINISHED
                /\ ret' = "state"]_vars

\* a stop, after the clock moved on, of a run that a query had found complete
C39_Witness ==
    /\ lastOp.op = "stop"
    /\ lastOp.found = FINISHED
    /\ ret = "state"
    /\ HasRec
    /\ Len(Rec.steps) > 0
    /\ Rec.status = FINISHED
    /\ Rec.time_in_timer > Rec.total_duration

\* the position (current_step_index, current_repetition) that the
\* recomputation gives the record at e seconds of activity
PositionAt(state, e) ==
    LET at == UpdateState(state, state.start_time + state.total_time_paused + e * tps).state
    IN <<at.current_step_index, at.current_repetition>>

\* lexicographic order of positions
PositionLeq(p, q) == p[1] < q[1] \/ (p[1] = q[1] /\ p[2] <= q[2])

\* C40: for the step list of a record with steps and elapsed values e1 <= e2,
\* from 0 to past total_duration, the position at e1 is lexicographically at
\* most the position at e2; the position a query has just returned is the one
\* computed for its time_in_timer.
C40_PositionMonotone ==
    (HasRec /\ Len(Rec.steps) > 0 /\ lastOp.op \in {"start", "query"})
        => LET pos == [e \in 0..(Rec.total_duration + 1) |-> PositionAt(Rec, e)]
           IN /\ \A e1 \in DOMAIN pos : \A e2 \in DOMAIN pos :
                    e1 <= e2 => PositionLeq(pos[e1], pos[e2])
              /\ (lastOp.op = "query" /\ ret = "state" /\ Rec.time_in_timer \in DOMAIN pos)
                    => pos[Rec.time_in_timer]
                         = <<Rec.current_step_index, Rec.current_repetition>>

\* a query that finds a two-step run in the second repetition of its first
\* step, with the second step and the finished position still ahead
C40_Witness ==
    /\ lastOp.op = "query"
    /\ ret = "state"
    /\ HasRec
    /\ Len(Rec.steps) = 2
    /\ Rec.steps[2].repetitions = 2
    /\ Rec.current_step_index = 0
    /\ Rec.current_repetition = 2
    /\ PositionAt(Rec, 0) = <<0, 1>>
    /\ PositionAt(Rec, Rec.total_duration - 1) = <<1, 2>>
    /\ PositionAt(Rec, Rec.total_duration + 1) = <<1, 2>>

====
